---- MODULE Spec2Model ----
(***************************************************************************)
(* A model of net_opt (src/execute.py): the P-median pipeline              *)
(*   set up data -> build model -> optimize -> check status ->             *)
(*   generate_outputs -> plot_network.                                     *)
(*                                                                         *)
(* Units and encodings                                                     *)
(*  - Plants and customers lie on one meridian, so that the haversine      *)
(*    distance of utils.py reduces to r * |dlat| (radians); latitudes are  *)
(*    whole degrees and distances whole miles.                             *)
(*  - A solver value v.x is 0 or 1; the code's test "v.x > 0.5" is         *)
(*    written 2 * v > 1.                                                   *)
(*  - A float quotient is a record [kind, val]: a number in fixed point,   *)
(*    or nan (0/0) or inf (a/0), which numpy returns without raising.      *)
(*  - The solver (gurobipy) is modelled by its contract: on a feasible     *)
(*    model it returns OPTIMAL with any one of the feasible assignments of *)
(*    least objective value; on an infeasible one INFEASIBLE or            *)
(*    INF_OR_UNBD; and it may stop with another status (INTERRUPTED).      *)
(***************************************************************************)
EXTENDS Integers, FiniteSets, Sequences, TLC

\* ------------------------------------------------------------ bounds
NumPlants == 2
NumCust == 2
MaxDemand == 1

\* ------------------------------------------------- program constants
EarthRadius == 3959
cost_per_mile == 2
min_cost == 450
Limit400 == 400
Limit800 == 800
Limit1200 == 1200

\* Latitudes (degrees) of the sites of the sample tables. Pairwise distances
\* are 0, 483, 898 and 1382 miles: one in each band of the KPI report.
Sites == <<0, 20, 7>>

SiteSet == {Sites[k] : k \in 1..Len(Sites)}

PlantSite(i) == Sites[((i - 1) % Len(Sites)) + 1]

VARIABLES
  pc,          \* position in the script
  plant_df,    \* Plant ID -> [Latitude, MustUse, CanUse]
  cust_df,     \* Customer ID -> [Latitude, Demand]
  max_plants,  \* the parameter P
  sets,        \* plnt, cust, ij_set, must_use_plants, unavailable_plants
  dist,        \* (Plant ID, Customer ID) -> [Distance, Cost]
  mdl,         \* "none" or the model's name once built
  status,      \* mdl.status after optimize
  x, y,        \* the solver's values of the variables
  report,      \* the KPI printed by generate_outputs
  lanes,       \* the lane table returned by generate_outputs
  plotted,     \* the solution map has been drawn
  exit_code    \* sys.exit's code, -1 while running

vars == <<pc, plant_df, cust_df, max_plants, sets, dist, mdl, status, x, y,
          report, lanes, plotted, exit_code>>

\* ----------------------------------------------------------- helpers
RECURSIVE SumOver(_, _)
SumOver(f, S) ==
  IF S = {} THEN 0
  ELSE LET e == CHOOSE e \in S : TRUE
       IN f[e] + SumOver(f, S \ {e})

\* The sum of the values of binary variables (vtype=GRB.BINARY): the number
\* of them that are 1.
BinarySum(f) == Cardinality({e \in DOMAIN f : f[e] = 1})

Abs(n) == IF n < 0 THEN -n ELSE n

Max(a, b) == IF a >= b THEN a ELSE b

NoValues == <<>>

NoSets == [plnt |-> {}, cust |-> {}, ij_set |-> {},
           must_use_plants |-> {}, unavailable_plants |-> {}]

NoReport == [made |-> FALSE]

\* ------------------------------------------------------------- utils
\* calculate_distance_haversine for two points of one meridian:
\* a = sin(dlat/2)^2, c = 2 atan2(sqrt a, sqrt(1 - a)) = |dlat| in radians,
\* and the result r * c, here in whole miles (pi/180 = 3142/180000).
calculate_distance_haversine(lat1, lat2) ==
  (EarthRadius * 3142 * Abs(lat2 - lat1)) \div 180000

\* get_distance: the cross product of the two tables with its Distance.
get_distance(orig_df, dest_df) ==
  [k \in (DOMAIN orig_df) \X (DOMAIN dest_df) |->
     [Distance |-> calculate_distance_haversine(orig_df[k[1]].Latitude,
                                                dest_df[k[2]].Latitude)]]

\* dist['Cost'] = max(cost_per_mile * Distance, min_cost)
WithCost(d) ==
  [k \in DOMAIN d |->
     [Distance |-> d[k].Distance,
      Cost |-> Max(cost_per_mile * d[k].Distance, min_cost)]]

\* ------------------------------------------------------------ inputs
PlantRows ==
  [1..NumPlants -> [MustUse : BOOLEAN, CanUse : BOOLEAN]]

PlantTable(flags) ==
  [i \in DOMAIN flags |->
     [Latitude |-> PlantSite(i), MustUse |-> flags[i].MustUse,
      CanUse |-> flags[i].CanUse]]

CustKey(r) == r.Latitude * (MaxDemand + 1) + r.Demand

\* Customer tables, one per multiset of rows: no operation below depends on
\* the order of the rows.
CustTables ==
  {t \in [1..NumCust -> [Latitude : SiteSet, Demand : 0..MaxDemand]] :
     \A j \in 1..(NumCust - 1) : CustKey(t[j]) <= CustKey(t[j + 1])}

\* The scenario of the specification's testable properties: plant 1 (A) must
\* be used, plant 2 (B) is free, three customers with demands 10, 20, 30,
\* and max_plants = 1.
ScenarioPlants ==
  [i \in 1..2 |-> [Latitude |-> PlantSite(i), MustUse |-> (i = 1),
                   CanUse |-> TRUE]]

ScenarioDemand == <<10, 20, 30>>

ScenarioCustTables ==
  {[j \in 1..3 |-> [Latitude |-> l[j], Demand |-> ScenarioDemand[j]]] :
     l \in [1..3 -> SiteSet]}

IsScenario ==
  /\ plant_df = ScenarioPlants
  /\ cust_df \in ScenarioCustTables
  /\ max_plants = 1

InitRun ==
  /\ pc = "setup"
  /\ sets = NoSets
  /\ dist = NoValues
  /\ mdl = "none"
  /\ status = "none"
  /\ x = NoValues
  /\ y = NoValues
  /\ report = NoReport
  /\ lanes = {}
  /\ plotted = FALSE
  /\ exit_code = -1

InitGeneral ==
  /\ \E flags \in PlantRows : plant_df = PlantTable(flags)
  /\ cust_df \in CustTables
  /\ max_plants \in 1..NumPlants

Init ==
  /\ InitRun
  /\ (InitGeneral \/ IsScenario)

\* ------------------------------------------------------ set up data
SetUpData ==
  /\ pc = "setup"
  /\ dist' = WithCost(get_distance(plant_df, cust_df))
  /\ sets' = [plnt |-> DOMAIN plant_df,
              cust |-> DOMAIN cust_df,
              ij_set |-> (DOMAIN plant_df) \X (DOMAIN cust_df),
              must_use_plants |-> {i \in DOMAIN plant_df : plant_df[i].MustUse},
              unavailable_plants |-> {i \in DOMAIN plant_df : ~plant_df[i].CanUse}]
  /\ pc' = "build"
  /\ UNCHANGED <<plant_df, cust_df, max_plants, mdl, status, x, y, report,
                 lanes, plotted, exit_code>>

\* ------------------------------------------------ optimization model
\* Mutant of cust_coverage: "<= 1" written for "== 1".
cust_coverage_AtMostOne(yv) ==
  \A j \in sets.cust :
    BinarySum([i \in sets.plnt |-> yv[<<i, j>>]]) <= 1

\* 1. sum_i y[i,j] = 1 for all j
cust_coverage(yv) ==
  \A j \in sets.cust :
    BinarySum([i \in sets.plnt |-> yv[<<i, j>>]]) = 1

\* Mutant of max_num_plants: the cap off by one.
max_num_plants_OffByOne(xv) == BinarySum(xv) <= max_plants + 1

\* 2. sum_i x[i] <= P
max_num_plants(xv) == BinarySum(xv) <= max_plants

\* Mutant of rel_x_y: the linking constraints left out.
rel_x_y_Missing(xv, yv) == TRUE

\* 3. y[i,j] <= x[i] for all (i, j)
rel_x_y(xv, yv) == \A k \in sets.ij_set : yv[k] <= xv[k[1]]

\* Mutant of must_use: the constraints left out.
must_use_Missing(xv) == TRUE

\* 4. x[i] = 1 for the plants that must be used
must_use(xv) == \A i \in sets.must_use_plants : xv[i] = 1

\* Mutant of cant_use: the constraints left out.
cant_use_Missing(xv) == TRUE

\* 5. x[i] = 0 for the plants that cannot be used
cant_use(xv) == \A i \in sets.unavailable_plants : xv[i] = 0

\* total_weighted_dist: sum of Distance * Demand * y[i,j] over ij_set
total_weighted_dist(yv) ==
  SumOver([k \in sets.ij_set |->
             dist[k].Distance * cust_df[k[2]].Demand * yv[k]], sets.ij_set)

\* Mutant of IsBest: GRB.MAXIMIZE for GRB.MINIMIZE.
IsBest_Maximize(v, vals) == \A w \in vals : v >= w

\* setObjective(objective, GRB.MINIMIZE)
IsBest(v, vals) == \A w \in vals : v <= w

BuildModel ==
  /\ pc = "build"
  /\ mdl' = "net_optimization"
  /\ pc' = "optimize"
  /\ UNCHANGED <<plant_df, cust_df, max_plants, sets, dist, status, x, y,
                 report, lanes, plotted, exit_code>>

\* The assignments of the binary variables that satisfy constraints 1-5.
Feasible ==
  LET xs == {xv \in [sets.plnt -> {0, 1}] :
               max_num_plants(xv) /\ must_use(xv) /\ cant_use(xv)}
      ys == {yv \in [sets.ij_set -> {0, 1}] : cust_coverage(yv)}
  IN {s \in xs \X ys : rel_x_y(s[1], s[2])}

\* The feasible assignments of best objective value.
OptimalSolutions ==
  LET F == Feasible
      obj == [yv \in {s[2] : s \in F} |-> total_weighted_dist(yv)]
      vals == {obj[yv] : yv \in DOMAIN obj}
  IN {s \in F : IsBest(obj[s[2]], vals)}

\* mdl.optimize(): the outcomes the solver can end with.
SolverOutcomes ==
  LET opt == OptimalSolutions
  IN (IF opt = {}
      THEN {[status |-> "INFEASIBLE", x |-> NoValues, y |-> NoValues],
            [status |-> "INF_OR_UNBD", x |-> NoValues, y |-> NoValues]}
      ELSE {[status |-> "OPTIMAL", x |-> s[1], y |-> s[2]] : s \in opt})
     \cup {[status |-> "INTERRUPTED", x |-> NoValues, y |-> NoValues]}

Optimize ==
  /\ pc = "optimize"
  /\ \E r \in SolverOutcomes :
       /\ status' = r.status
       /\ x' = r.x
       /\ y' = r.y
  /\ pc' = "status"
  /\ UNCHANGED <<plant_df, cust_df, max_plants, sets, dist, mdl, report,
                 lanes, plotted, exit_code>>

\* Mutant of CheckStatus: the else branch prints and does not exit.
CheckStatus_NoExitInElse ==
  /\ pc = "status"
  /\ IF status \in {"INF_OR_UNBD", "INFEASIBLE", "UNBOUNDED"}
     THEN pc' = "exit" /\ exit_code' = 1
     ELSE pc' = "outputs" /\ exit_code' = exit_code
  /\ UNCHANGED <<plant_df, cust_df, max_plants, sets, dist, mdl, status, x, y,
                 report, lanes, plotted>>

\* The if / elif / else on mdl.status.
CheckStatus ==
  /\ pc = "status"
  /\ IF status \in {"INF_OR_UNBD", "INFEASIBLE", "UNBOUNDED"}
     THEN pc' = "exit" /\ exit_code' = 1
     ELSE IF status = "OPTIMAL"
          THEN pc' = "outputs" /\ exit_code' = exit_code
          ELSE pc' = "exit" /\ exit_code' = 1
  /\ UNCHANGED <<plant_df, cust_df, max_plants, sets, dist, mdl, status, x, y,
                 report, lanes, plotted>>

\* ---------------------------------------------------- generate_outputs
\* a / b as numpy computes it: nan for 0/0 and inf for a/0, neither raising.
Quotient(a, b, scale) ==
  IF b = 0
  THEN [kind |-> IF a = 0 THEN "nan" ELSE "inf", val |-> 0]
  ELSE [kind |-> "num", val |-> (a * scale) \div b]

\* [k for k, v in y.items() if v.x > 0.5]
assigned_list(yv) == {k \in DOMAIN yv : 2 * yv[k] > 1}

\* [... for k, v in x.items() if v.x > 0.5]
opt_plants(xv) == {i \in DOMAIN xv : 2 * xv[i] > 1}

\* adf: the assigned pairs joined (inner) with Demand and Distance, and the
\* three Within columns.
adf(yv) ==
  {[PlantID |-> k[1], CustomerID |-> k[2],
    Demand |-> cust_df[k[2]].Demand,
    Distance |-> dist[k].Distance,
    Within400 |-> (dist[k].Distance <= Limit400),
    Within800 |-> (dist[k].Distance <= Limit800),
    Within1200 |-> (dist[k].Distance <= Limit1200)] :
     k \in {a \in assigned_list(yv) : a[2] \in DOMAIN cust_df /\ a \in DOMAIN dist}}

\* adf.loc[rows, 'Demand'].sum()
DemandSum(rows) == SumOver([r \in rows |-> r.Demand], rows)

\* The KPI generate_outputs prints.
kpi(xv, yv) ==
  LET rows == adf(yv)
      total_dmd == DemandSum(rows)
  IN [made |-> TRUE,
      opt_plants |-> opt_plants(xv),
      total_dmd |-> total_dmd,
      weighted_avg_dist |-> Quotient(total_weighted_dist(yv), total_dmd, 10),
      pct_dmd_within400 |->
        Quotient(DemandSum({r \in rows : r.Within400}), total_dmd, 10000),
      pct_dmd_within800 |->
        Quotient(DemandSum({r \in rows : r.Within800}), total_dmd, 10000),
      pct_dmd_within1200 |->
        Quotient(DemandSum({r \in rows : r.Within1200}), total_dmd, 10000)]

\* The lane table: the assigned pairs joined (inner) with the customer and
\* the plant tables, duplicates dropped.
lane_table(yv) ==
  {[Lane |-> k, PlantID |-> k[1], CustomerID |-> k[2],
    Demand |-> cust_df[k[2]].Demand,
    OriginLat |-> plant_df[k[1]].Latitude,
    DestLat |-> cust_df[k[2]].Latitude] :
     k \in {a \in assigned_list(yv) :
              a[2] \in DOMAIN cust_df /\ a[1] \in DOMAIN plant_df}}

GenerateOutputs ==
  /\ pc = "outputs"
  /\ report' = kpi(x, y)
  /\ lanes' = lane_table(y)
  /\ pc' = "plot"
  /\ UNCHANGED <<plant_df, cust_df, max_plants, sets, dist, mdl, status, x, y,
                 plotted, exit_code>>

\* plot_network(lanes, ...): the solution map.
PlotSolution ==
  /\ pc = "plot"
  /\ plotted' = TRUE
  /\ pc' = "done"
  /\ UNCHANGED <<plant_df, cust_df, max_plants, sets, dist, mdl, status, x, y,
                 report, lanes, exit_code>>

Next ==
  \/ SetUpData
  \/ BuildModel
  \/ Optimize
  \/ CheckStatus
  \/ GenerateOutputs
  \/ PlotSolution

Spec == Init /\ [][Next]_vars

\* ------------------------------------------- generate_outputs on any values
\* generate_outputs takes the variables' values as they are: nothing between
\* mdl.optimize() and its use of x and y looks at them. This specification
\* hands it every assignment of 0/1 values under an OPTIMAL status.
OptimizeAnyValues ==
  /\ pc = "optimize"
  /\ status' = "OPTIMAL"
  /\ x' \in [sets.plnt -> {0, 1}]
  /\ y' \in [sets.ij_set -> {0, 1}]
  /\ pc' = "status"
  /\ UNCHANGED <<plant_df, cust_df, max_plants, sets, dist, mdl, report,
                 lanes, plotted, exit_code>>

NextAnyValues ==
  \/ SetUpData
  \/ BuildModel
  \/ OptimizeAnyValues
  \/ CheckStatus
  \/ GenerateOutputs
  \/ PlotSolution

SpecAnyValues == Init /\ [][NextAnyValues]_vars

\* ===================================================================
\* Properties
\* ===================================================================
OutputsMade == pc \in {"plot", "done"}

LanePlants == {l.PlantID : l \in lanes}

LanesOf(j) == {l \in lanes : l.CustomerID = j}

MustUsePlants == {i \in DOMAIN plant_df : plant_df[i].MustUse}

CannotUsePlants == {i \in DOMAIN plant_df : ~plant_df[i].CanUse}

HasConflict == MustUsePlants \cap CannotUsePlants # {}

\* The plant(s) of least distance to customer j among the plants of S.
Nearest(S, j) ==
  {p \in S : \A q \in S : dist[<<p, j>>].Distance <= dist[<<q, j>>].Distance}

\* C1: after an Optimal solve the lane table holds exactly one lane for every
\* customer id of the customer table, and lanes of no other id.
C1_CoverageLaw ==
  (OutputsMade /\ status = "OPTIMAL") =>
     /\ {l.CustomerID : l \in lanes} = DOMAIN cust_df
     /\ \A j \in DOMAIN cust_df : Cardinality(LanesOf(j)) = 1

\* C1 witness: a finished run whose lane table serves the customers from two
\* different plants.
C1_Witness ==
  /\ pc = "done"
  /\ status = "OPTIMAL"
  /\ Cardinality(lanes) = Cardinality(DOMAIN cust_df)
  /\ Cardinality(LanePlants) = 2

\* C2: after an Optimal solve the lane table names at most max_plants distinct
\* plants, each of them open, and at most max_plants plants are open.
C2_PlantCap ==
  (OutputsMade /\ status = "OPTIMAL") =>
     /\ Cardinality(LanePlants) <= max_plants
     /\ LanePlants \subseteq report.opt_plants
     /\ Cardinality(report.opt_plants) <= max_plants

\* C2 witness: the cap binds: max_plants = 1, every plant may be used, and two
\* customers with demand have different nearest plants.
C2_Witness ==
  /\ OutputsMade
  /\ status = "OPTIMAL"
  /\ max_plants = 1
  /\ CannotUsePlants = {}
  /\ Cardinality(LanePlants) = 1
  /\ \E j, k \in DOMAIN cust_df :
       /\ cust_df[j].Demand > 0
       /\ cust_df[k].Demand > 0
       /\ Nearest(DOMAIN plant_df, j) \cap Nearest(DOMAIN plant_df, k) = {}

\* C3: after an Optimal solve every plant with Must Use is among the open
\* plants, and no plant without Can Use is open or the origin of a lane.
C3_ForcedPlants ==
  (OutputsMade /\ status = "OPTIMAL") =>
     /\ MustUsePlants \subseteq report.opt_plants
     /\ CannotUsePlants \cap report.opt_plants = {}
     /\ CannotUsePlants \cap LanePlants = {}

\* C3 witness: outputs of a run with a must-use plant and a cannot-use plant
\* that is the nearest plant of a customer with demand.
C3_Witness ==
  /\ OutputsMade
  /\ status = "OPTIMAL"
  /\ MustUsePlants # {}
  /\ \E i \in CannotUsePlants : \E j \in DOMAIN cust_df :
       cust_df[j].Demand > 0 /\ Nearest(DOMAIN plant_df, j) = {i}

\* C4 as stated: after an Optimal solve every must-use plant is the origin of
\* at least one lane.
C4_MustUseInLanes ==
  (OutputsMade /\ status = "OPTIMAL") => MustUsePlants \subseteq LanePlants

\* C4 amended: after an Optimal solve the must-use plants and the plants of
\* the lane table are all open and together number at most max_plants.
C4_MustUseOpen ==
  (OutputsMade /\ status = "OPTIMAL") =>
     /\ (MustUsePlants \cup LanePlants) \subseteq report.opt_plants
     /\ Cardinality(MustUsePlants \cup LanePlants) <= max_plants

\* C4 witness: a must-use plant that is open and the origin of no lane.
C4_Witness ==
  /\ OutputsMade
  /\ status = "OPTIMAL"
  /\ \E i \in MustUsePlants : i \in report.opt_plants /\ i \notin LanePlants

C6_NonOptimalNoOutputs ==
  /\ (status \notin {"none", "OPTIMAL"}) =>
        /\ pc \in {"status", "exit"}
        /\ (pc = "exit" => exit_code = 1)
        /\ ~report.made
        /\ lanes = {}
        /\ ~plotted
  /\ (report.made \/ plotted \/ pc \in {"outputs", "plot", "done"}) =>
        (status = "OPTIMAL" /\ exit_code = -1)

\* C6 witness: a run ended by a status that is neither Optimal nor one of the
\* infeasible/unbounded three.
C6_Witness ==
  /\ pc = "exit"
  /\ status = "INTERRUPTED"
  /\ exit_code = 1

\* The post-solve invariants of the values xv, yv.
PostSolveInvariant(xv, yv) ==
  /\ \A j \in DOMAIN cust_df :
       Cardinality({k \in assigned_list(yv) : k[2] = j}) = 1
  /\ Cardinality({k[1] : k \in assigned_list(yv)}) <= max_plants
  /\ MustUsePlants \subseteq opt_plants(xv)
  /\ CannotUsePlants \cap opt_plants(xv) = {}

\* C7: when the values of an Optimal solve violate a post-solve invariant,
\* generate_outputs raises an error: no lane table or report is returned.
C7_PostSolveCheck ==
  (status = "OPTIMAL" /\ ~PostSolveInvariant(x, y)) =>
     (~OutputsMade /\ ~report.made)

\* C8 as stated: in the scenario (A must-use, B free, demands 10, 20, 30,
\* max_plants = 1) the solve ends with a status other than Optimal.
C8_ScenarioInfeasible ==
  (IsScenario /\ status # "none") => status # "OPTIMAL"

\* C8 amended: in the scenario the model is feasible: the solve never ends
\* INFEASIBLE or INF_OR_UNBD, and an Optimal solve opens exactly plant A and
\* serves every customer from A.
C8_ScenarioOptimal ==
  IsScenario =>
     /\ status \notin {"INFEASIBLE", "INF_OR_UNBD"}
     /\ status = "OPTIMAL" =>
          /\ opt_plants(x) = {1}
          /\ assigned_list(y) = {1} \X DOMAIN cust_df
     /\ OutputsMade =>
          /\ LanePlants = {1}
          /\ Cardinality(lanes) = 3

\* C8 witness: the scenario solved Optimal and reported, with a customer
\* nearer to B than to A.
C8_Witness ==
  /\ IsScenario
  /\ pc = "done"
  /\ status = "OPTIMAL"
  /\ \E j \in DOMAIN cust_df : Nearest(DOMAIN plant_df, j) = {2}

IsFraction(q) == q.kind = "num" /\ 0 <= q.val /\ q.val <= 10000

\* C9: the reported fractions are numbers of [0, 1], non-decreasing with the
\* threshold, and the total demand they are divided by is not zero.
C9_CoverageFractions ==
  report.made =>
     /\ report.total_dmd # 0
     /\ IsFraction(report.pct_dmd_within400)
     /\ IsFraction(report.pct_dmd_within800)
     /\ IsFraction(report.pct_dmd_within1200)
     /\ report.pct_dmd_within400.val <= report.pct_dmd_within800.val
     /\ report.pct_dmd_within800.val <= report.pct_dmd_within1200.val

\* The open sets the constraints admit, and the demand-weighted distance of
\* serving every customer from a nearest plant of S.
AdmissibleOpenSets ==
  {S \in SUBSET (DOMAIN plant_df) :
     /\ S # {}
     /\ MustUsePlants \subseteq S
     /\ S \cap CannotUsePlants = {}
     /\ Cardinality(S) <= max_plants}

NearestValue(S) ==
  SumOver([j \in DOMAIN cust_df |->
             cust_df[j].Demand
               * dist[<<CHOOSE p \in Nearest(S, j) : TRUE, j>>].Distance],
          DOMAIN cust_df)

\* C10: in an Optimal solution every customer with demand is served by a
\* plant nearest to it among the open plants, and the objective value is the
\* least NearestValue over the admissible open sets.
C10_NearestOpenPlant ==
  (pc = "outputs" /\ status = "OPTIMAL") =>
     /\ \A k \in assigned_list(y) :
          cust_df[k[2]].Demand > 0 => k[1] \in Nearest(opt_plants(x), k[2])
     /\ \E S \in AdmissibleOpenSets :
          /\ total_weighted_dist(y) = NearestValue(S)
          /\ \A T \in AdmissibleOpenSets : NearestValue(S) <= NearestValue(T)

\* C10 witness: two plants open, and a customer with demand that is nearer to
\* one of them.
C10_Witness ==
  /\ pc = "outputs"
  /\ status = "OPTIMAL"
  /\ Cardinality(opt_plants(x)) >= 2
  /\ \E j \in DOMAIN cust_df :
       cust_df[j].Demand > 0 /\ Cardinality(Nearest(opt_plants(x), j)) = 1

====
